---- MODULE Spec2Model ----
(***************************************************************************)
(* The seven facade classes of the Aurora design system                    *)
(* (ComponentArchitecture.js, AccessibilityEngine.js,                      *)
(* DesignTokenOrchestrator.js) as a state machine over invocations of      *)
(* their public async operations.                                          *)
(*                                                                         *)
(* The helper classes the facades instantiate, and the private methods     *)
(* they call without declaring, have no bodies in the repository.  A call  *)
(* of one of them is an uninterpreted function application: its value is   *)
(* the term  helper(arguments),  and it settles either by resolving with   *)
(* that term or by rejecting.  What the model decides is what the facade   *)
(* code decides: which helper is called, with which values, in which       *)
(* order, and what is assembled from the results.                          *)
(*                                                                         *)
(* pc[i] is the source line of the next await of invocation i (line        *)
(* numbers of the file that declares the class of op[i]).                  *)
(***************************************************************************)
EXTENDS Integers, Sequences, FiniteSets, TLC

VARIABLES status, op, env, pc, idx, locals, pend, trace, result, error

vars == <<status, op, env, pc, idx, locals, pend, trace, result, error>>

\* Longest iterated collection (optimizers, stages, strategies, remediations,
\* profiles) a single invocation meets.
MaxList == 2
\* The same, for the specification with two overlapping invocations.
MaxListPair == 1

Invocations == {1, 2}

(***************************************************************************)
(* Values.  Every JavaScript value the facades handle is a term.           *)
(***************************************************************************)
T(name, as) == [op |-> name, n |-> 0, args |-> as]
Atom(name) == T(name, <<>>)
Undefined == Atom("undefined")
\* a number, in hundredths (0.95 is Num(95), 8 is Num(800))
Num(h) == [op |-> "number", n |-> h, args |-> <<>>]
\* the own properties an object is known to have (a property listed with the
\* value undefined is absent); every other property of it is left symbolic
Own(keys, vals) == T("[[own]]", [j \in 1..Len(keys) |-> T(keys[j], <<vals[j]>>)])
HasOwn(obj, field) ==
    /\ Len(obj.args) = 2
    /\ obj.args[2].op = "[[own]]"
    /\ \E j \in 1..Len(obj.args[2].args) : obj.args[2].args[j].op = field
\* obj.field
F(obj, field) ==
    IF HasOwn(obj, field)
    THEN (CHOOSE e \in {obj.args[2].args[j] : j \in 1..Len(obj.args[2].args)} : e.op = field).args[1]
    ELSE T(field, <<obj>>)
\* the k-th element (from 0) a for-of loop draws from list
Elem(list, k) == [op |-> "[]", n |-> k, args |-> <<list>>]
\* an object literal { keys[1]: vals[1], ... }
Obj(keys, vals) == T("{}", [j \in 1..Len(keys) |-> T(keys[j], <<vals[j]>>)])
Keys(o) == {o.args[j].op : j \in 1..Len(o.args)}
Get(o, key) == (CHOOSE e \in {o.args[j] : j \in 1..Len(o.args)} : e.op = key).args[1]
\* an array [ items[1], ... ]
Arr(items) == T("[...]", items)
\* the values JavaScript converts to false
Falsy(v) ==
    v \in {Undefined, Num(0), Atom("null"), Atom("false"), Atom("''"), Atom("NaN")}
\* a value the model knows, as opposed to a term standing for an unknown one
Known(v) == Falsy(v) \/ v.op \in {"number", "[...]"}
\* a || b: b when a is falsy, a when a is known and truthy; uninterpreted when
\* a stands for an unknown value
OrElse(a, b) == IF Falsy(a) THEN b ELSE IF Known(a) THEN a ELSE T("||", <<a, b>>)
\* The options with a `||` default whose value the caller may supply.
OptionNames ==
    {"standards", "confidenceThreshold", "contrastTarget", "scaleRatio", "baseline", "tolerance"}
Caller(i) == Atom(IF i = 1 THEN "caller1" ELSE "caller2")
\* what the caller of invocation i supplied for the option (undefined: nothing)
Supplied(i, name) == env[i].opts[name]
\* the argument the caller of invocation i passes for parameter name
Arg(i, name) ==
    CASE op[i] = "enforceAccessibility" /\ name = "context" ->
           T(name, <<Caller(i),
                     Own(<<".standards", ".confidenceThreshold">>,
                         <<Supplied(i, "standards"), Supplied(i, "confidenceThreshold")>>)>>)
      [] op[i] = "composeTheme" /\ name = "designIntent" ->
           T(name, <<Caller(i),
                     Own(<<".colorStrategy", ".typography">>,
                         <<T("colorStrategy",
                             <<Caller(i), Own(<<".contrastTarget">>, <<Supplied(i, "contrastTarget")>>)>>),
                           T("typography",
                             <<Caller(i), Own(<<".scaleRatio", ".baseline">>,
                                              <<Supplied(i, "scaleRatio"), Supplied(i, "baseline")>>)>>)>>)>>)
      [] op[i] = "composeTheme" /\ name = "constraints" ->
           T(name, <<Caller(i),
                     Own(<<".accessibility">>,
                         <<T("accessibility",
                             <<Caller(i), Own(<<".tolerance">>, <<Supplied(i, "tolerance")>>)>>)>>)>>)
      [] OTHER -> T(name, <<Caller(i)>>)
\* the error a rejected helper call carries
Rejection(call) == T("rejection", <<call>>)

Get1(loc, name) == IF name \in DOMAIN loc THEN loc[name] ELSE Undefined
Set1(loc, name, v) == [x \in DOMAIN loc \cup {name} |-> IF x = name THEN v ELSE loc[x]]

(***************************************************************************)
(* How the (deterministic) helpers behave on the arguments of an           *)
(* invocation: what the validator says of the specification and how long   *)
(* the collections are that the factories return for them.                 *)
(***************************************************************************)
Profiles == {Atom("profileA"), Atom("profileB")}

SeqsUpTo(S, m) == UNION {[1..k -> S] : k \in 0..m}

\* Token categories: one with a contextual modifier of its own, one with none,
\* and one that names a property every object literal inherits.
Categories == <<"color", "custom", "constructor">>

RECURSIVE SubSeqs(_)
SubSeqs(s) ==
    IF s = <<>> THEN {<<>>}
    ELSE LET rest == SubSeqs(Tail(s))
         IN  rest \cup {<<Head(s)>> \o r : r \in rest}

\* The values a caller may give a numeric option: none, zero, a positive one.
NumericInputs == {Undefined, Num(0), Num(50)}
\* The same, for the specification with two overlapping invocations.
NumericInputsPair == {Undefined, Num(0)}
\* The values a caller may give for the standards: none, or a list of its own.
StandardsInputs == {Undefined, Arr(<<Atom("'WCAG_2_2_AAA'")>>)}

NoOptions == [o \in OptionNames |-> Undefined]
\* the number of options a caller supplies
SuppliedCount(opts) == Cardinality({o \in OptionNames : opts[o] # Undefined})

NoEnv == [valid |-> TRUE, n1 |-> 0, n2 |-> 0, profiles |-> <<>>, cats |-> <<>>, opts |-> NoOptions]

\* The behaviours within m elements and supplied options, numeric options
\* drawn from nums.
EnvFor(o, m, nums) ==
    CASE o = "createComponent" ->
           {[NoEnv EXCEPT !.valid = v, !.n1 = a] : v \in BOOLEAN, a \in 0..m}
      [] o = "computeResponsiveLayout" ->
           {[NoEnv EXCEPT !.n1 = a] : a \in 0..m}
      [] o = "enforceAccessibility" ->
           {e \in {[NoEnv EXCEPT !.n1 = a, !.opts["standards"] = s, !.opts["confidenceThreshold"] = c] :
                     a \in 0..m, s \in StandardsInputs, c \in nums} :
              e.n1 + SuppliedCount(e.opts) <= m}
      [] o = "composeTheme" ->
           {e \in {[NoEnv EXCEPT !.opts["contrastTarget"] = a, !.opts["scaleRatio"] = b,
                                  !.opts["baseline"] = c, !.opts["tolerance"] = d] :
                     a \in nums, b \in nums, c \in nums, d \in nums} :
              SuppliedCount(e.opts) <= m}
      [] o = "ensureInclusiveDesign" ->
           {[NoEnv EXCEPT !.profiles = s] : s \in SeqsUpTo(Profiles, m)}
      [] o = "resolveDesignTokens" ->
           {e \in [valid : {TRUE}, n1 : 0..m, n2 : 0..m, profiles : {<<>>},
                   cats : SubSeqs(Categories), opts : {NoOptions}] :
              e.n1 + e.n2 + Len(e.cats) <= m}
      [] OTHER -> {NoEnv}

\* The number of elements an invocation iterates over and of options its
\* caller supplies.
Size(e) == e.n1 + e.n2 + Len(e.cats) + Len(e.profiles) + SuppliedCount(e.opts)

Operations ==
    {"createComponent", "computeResponsiveLayout", "enforceDesignGovernance",
     "enforceAccessibility", "ensureInclusiveDesign", "resolveDesignTokens",
     "composeTheme"}

FirstLine(o) ==
    CASE o = "createComponent" -> 29
      [] o = "computeResponsiveLayout" -> 100
      [] o = "enforceDesignGovernance" -> 172
      [] o = "enforceAccessibility" -> 30
      [] o = "ensureInclusiveDesign" -> 100
      [] o = "resolveDesignTokens" -> 30
      [] OTHER -> 111

(***************************************************************************)
(* The option objects the facades build for their helpers.                 *)
(***************************************************************************)
ComposeOptions(validatedSpec) ==
    Obj(<<"designPattern", "stateManagement", "stylingApproach">>,
        <<OrElse(F(validatedSpec, ".designPattern"), Atom("'compound'")), OrElse(F(validatedSpec, ".stateManagement"), Atom("'local'")), OrElse(F(validatedSpec, ".styling"), Atom("'css_in_js'"))>>)

ViewportOptions(context) ==
    Obj(<<"dimensions", "capabilities", "environment", "userPreferences">>,
        <<F(context, ".viewport"), F(context, ".capabilities"), F(context, ".environment"), F(context, ".preferences")>>)

BreakpointOptions(layoutSpec, viewportAnalysis) ==
    Obj(<<"viewport", "content", "interaction", "performance">>,
        <<viewportAnalysis, F(layoutSpec, ".contentRequirements"), F(layoutSpec, ".interactionPatterns"), F(layoutSpec, ".performanceBudget")>>)

SolveOptions(constraints, viewport) ==
    Obj(<<"viewport", "optimizationCriteria", "fallbackStrategies">>,
        <<viewport, F(constraints, ".optimizationGoals"), F(constraints, ".fallbackMechanisms")>>)

LayoutOptimizationContext(viewportAnalysis, layoutConstraints, context) ==
    Obj(<<"viewport", "constraints", "interaction">>,
        <<viewportAnalysis, layoutConstraints, F(context, ".interactionPatterns")>>)

ComplianceOptions(rules) ==
    Obj(<<"rules", "exceptions", "severity">>,
        <<F(rules, ".designRules"), F(rules, ".allowedExceptions"), F(rules, ".severityLevels")>>)

DecisionOptions(rules) ==
    Obj(<<"decisionModel", "thresholds", "stakeholders">>,
        <<OrElse(F(rules, ".decisionModel"), Atom("'weighted_scoring'")), F(rules, ".decisionThresholds"), F(rules, ".stakeholderPreferences")>>)

AuditOptions(context) ==
    Obj(<<"standards", "testingMethods", "userGroups">>,
        <<OrElse(F(context, ".standards"), Arr(<<Atom("'WCAG_2_1_AA'")>>)), OrElse(F(context, ".testingMethods"), Atom("['automated','assistive_technology','keyboard']")), OrElse(F(context, ".userGroups"), Atom("['visual','motor','cognitive','auditory']"))>>)

RemediationOptions(context) ==
    Obj(<<"priority", "resources", "timeline">>,
        <<OrElse(F(context, ".remediationPriority"), Atom("'high_impact_first'")), F(context, ".remediationResources"), F(context, ".remediationTimeline")>>)

VerificationOptions(context) ==
    Obj(<<"standards", "verificationMethods", "confidenceLevel">>,
        <<F(context, ".standards"), Atom("['automated','manual','assistive_technology']"), OrElse(F(context, ".confidenceThreshold"), Num(95))>>)

RequirementOptions(userDiversity) ==
    Obj(<<"disabilityTypes", "assistiveTechnologies", "environmentalFactors">>,
        <<F(userDiversity, ".disabilities"), F(userDiversity, ".technologies"), F(userDiversity, ".environments")>>)

SimulationOptions(userProfile) ==
    Obj(<<"interactionMethods", "assistiveTechnology", "environmentalConstraints">>,
        <<F(userProfile, ".interactionMethods"), F(userProfile, ".assistiveTechnology"), F(userProfile, ".environment")>>)

PersonalizationOptions(requirements) ==
    Obj(<<"adaptationLevels", "userControl", "automation">>,
        <<Atom("['presentation','interaction','content']"), F(requirements, ".userControlPreferences"), F(requirements, ".automationCapabilities")>>)

FinalizeOptions(platformConstraints) ==
    Obj(<<"format", "optimization", "polyfills">>,
        <<F(platformConstraints, ".outputFormat"), F(platformConstraints, ".optimizationLevel"), F(platformConstraints, ".compatibility")>>)

PaletteOptions(colorStrategy) ==
    Obj(<<"colorSpace", "harmonyModel", "contrastTarget">>,
        <<Atom("'oklch'"), OrElse(F(colorStrategy, ".harmonyType"), Atom("'triadic'")), OrElse(F(colorStrategy, ".contrastTarget"), Num(450))>>)

RefinementOptions(colorStrategy) ==
    Obj(<<"perceptualUniformity", "accessibilityCompliance", "brandAlignment">>,
        <<Atom("true"), Atom("'WCAG_AA'"), F(colorStrategy, ".brandColors")>>)

ScaleOptions(typographySpec) ==
    Obj(<<"scaleRatio", "baselineGrid", "opticalCompensation">>,
        <<OrElse(F(typographySpec, ".scaleRatio"), Num(125)), OrElse(F(typographySpec, ".baseline"), Num(800)), Atom("true")>>)

HierarchyOptions(typographySpec) ==
    Obj(<<"readabilityOptimization", "responsiveBehavior", "fontLoadingStrategy">>,
        <<F(typographySpec, ".readabilityFocus"), F(typographySpec, ".responsiveStrategy"), F(typographySpec, ".fontLoading")>>)

ContrastOptions(accessibilityRequirements) ==
    Obj(<<"preserveDesignIntent", "optimizationMethod", "tolerance">>,
        <<Atom("true"), Atom("'gradient_descent'"), OrElse(F(accessibilityRequirements, ".tolerance"), Num(10))>>)

(***************************************************************************)
(* The async machinery.                                                    *)
(***************************************************************************)
\* An async function that has awaited a promise does not run until the
\* promise settles.
NeverSuspended(i) == FALSE
Suspended(i) == pend[i] # {}

\* const/let name = v, in the frame of invocation i.
PutOnInstance(loc, i, name, v) == [j \in DOMAIN loc |-> Set1(loc[j], name, v)]
Put(loc, i, name, v) == [loc EXCEPT ![i] = Set1(@, name, v)]

Local(i, name) == Get1(locals[i], name)

At(i, o, line) == status[i] = "running" /\ op[i] = o /\ pc[i] = line /\ ~Suspended(i)

\* `dest = await term`, written in the stage (private method called from the
\* public operation) `stage`; execution continues at line `next`.
Await(i, stage, dest, term, next) ==
    /\ pend' = [pend EXCEPT ![i] = @ \cup {[stage |-> stage, dest |-> dest, term |-> term, k |-> idx[i]]}]
    /\ trace' = [trace EXCEPT ![i] = Append(@, [ev |-> "call", stage |-> stage, op |-> term.op, k |-> idx[i]])]
    /\ pc' = [pc EXCEPT ![i] = next]
    /\ UNCHANGED <<status, op, env, locals, result, error>>

Call(i, o, line, stage, dest, term, next) ==
    /\ At(i, o, line)
    /\ Await(i, stage, dest, term, next)
    /\ UNCHANGED idx

\* A synchronous continuation that only moves on.
Goto(i, next) ==
    /\ pc' = [pc EXCEPT ![i] = next]
    /\ UNCHANGED <<status, op, env, locals, pend, trace, result, error>>

\* let name = v before a loop; the loop's iterator starts at its first element.
Assign(i, name, v, next) ==
    /\ locals' = Put(locals, i, name, v)
    /\ pc' = [pc EXCEPT ![i] = next]
    /\ idx' = [idx EXCEPT ![i] = 0]
    /\ UNCHANGED <<status, op, env, pend, trace, result, error>>

\* A loop body that neither advances the iterator nor awaits.
LoopStuck(i, stage, dest, term, line) == UNCHANGED vars

\* One pass of `for (const x of list) { dest = await term }`: the iterator
\* advances and the body awaits; the loop head is at `line`.
LoopCall(i, stage, dest, term, line) ==
    /\ Await(i, stage, dest, term, line)
    /\ idx' = [idx EXCEPT ![i] = @ + 1]

\* The iterator is exhausted.
LoopExit(i, next) ==
    /\ Goto(i, next)
    /\ idx' = [idx EXCEPT ![i] = 0]

Resolve(i, v) ==
    /\ status' = [status EXCEPT ![i] = "resolved"]
    /\ result' = [result EXCEPT ![i] = v]
    /\ pc' = [pc EXCEPT ![i] = 0]
    /\ UNCHANGED <<op, env, idx, locals, pend, trace, error>>

Throw(i, e) ==
    /\ status' = [status EXCEPT ![i] = "rejected"]
    /\ error' = [error EXCEPT ![i] = e]
    /\ pc' = [pc EXCEPT ![i] = 0]
    /\ UNCHANGED <<op, env, idx, locals, result>>

\* The awaited promise resolves: the await expression takes its value.
HelperResolves(i) ==
    /\ status[i] = "running"
    /\ \E p \in pend[i] :
         /\ pend' = [pend EXCEPT ![i] = @ \ {p}]
         /\ locals' = Put(locals, i, p.dest, p.term)
         /\ trace' = [trace EXCEPT ![i] = Append(@, [ev |-> "resolve", stage |-> p.stage, op |-> p.term.op, k |-> p.k])]
    /\ UNCHANGED <<status, op, env, pc, idx, result, error>>

\* The awaited promise rejects: no facade has a try/catch, so the error leaves
\* the public operation.
HelperRejects(i) ==
    /\ status[i] = "running"
    /\ \E p \in pend[i] :
         /\ pend' = [pend EXCEPT ![i] = @ \ {p}]
         /\ trace' = [trace EXCEPT ![i] = Append(@, [ev |-> "reject", stage |-> p.stage, op |-> p.term.op, k |-> p.k])]
         /\ Throw(i, Rejection(p.term))

\* A caller invokes a public operation.
Invoke(i, m, nums) ==
    /\ status[i] = "idle"
    /\ \E o \in Operations : \E e \in EnvFor(o, m, nums) :
         /\ status' = [status EXCEPT ![i] = "running"]
         /\ op' = [op EXCEPT ![i] = o]
         /\ env' = [env EXCEPT ![i] = e]
         /\ pc' = [pc EXCEPT ![i] = FirstLine(o)]
    /\ UNCHANGED <<idx, locals, pend, trace, result, error>>

(***************************************************************************)
(* ComponentArchitecture.js: ComponentContractEnforcement                  *)
(***************************************************************************)
\* As validateComponentSpecification, without the isValid test.
validateComponentSpecificationUnchecked(i) ==
    LET spec == Arg(i, "componentSpec")
        validationEngine == T("createValidator", <<F(spec, ".componentType")>>)
        validationResults == Local(i, "validationResults")
    IN  \/ Call(i, "createComponent", 29, "validateComponentSpecification", "validationResults",
                T("validateSpecification", <<validationEngine, spec, F(spec, ".customValidators")>>), 35)
        \/ Call(i, "createComponent", 35, "validateComponentSpecification", "validatedSpec",
                T("normalizeComponentSpecification", <<spec, F(validationResults, ".warnings")>>), 45)

validateComponentSpecification(i) ==
    LET spec == Arg(i, "componentSpec")
        validationEngine == T("createValidator", <<F(spec, ".componentType")>>)
        validationResults == Local(i, "validationResults")
    IN  \/ Call(i, "createComponent", 29, "validateComponentSpecification", "validationResults",
                T("validateSpecification", <<validationEngine, spec, F(spec, ".customValidators")>>), 35)
        \/ /\ At(i, "createComponent", 35)
           /\ ~env[i].valid
           /\ Throw(i, T("ComponentSpecificationError", <<F(validationResults, ".errors")>>))
           /\ UNCHANGED <<pend, trace>>
        \/ /\ At(i, "createComponent", 35)
           /\ env[i].valid
           /\ Await(i, "validateComponentSpecification", "validatedSpec",
                    T("normalizeComponentSpecification", <<spec, F(validationResults, ".warnings")>>), 45)
           /\ UNCHANGED idx

composeComponentArchitecture(i) ==
    LET validatedSpec == Local(i, "validatedSpec")
        compositionEngine == T("getComposer", <<Local(i, "compositionStrategy")>>)
    IN  \/ Call(i, "createComponent", 45, "composeComponentArchitecture", "compositionStrategy",
                T("determineCompositionStrategy", <<validatedSpec>>), 48)
        \/ Call(i, "createComponent", 48, "composeComponentArchitecture", "architecture",
                T("compose", <<compositionEngine, validatedSpec,
                               ComposeOptions(validatedSpec)>>), 54)
        \/ Call(i, "createComponent", 54, "composeComponentArchitecture", "composedArchitecture",
                T("enforceArchitectureConstraints",
                  <<Local(i, "architecture"), F(validatedSpec, ".constraints")>>), 16)

optimizeComponentPerformance(i) ==
    LET context == Arg(i, "implementationContext")
        optimizationPipeline == T("createOptimizationPipeline", <<context>>)
        optimizers == F(optimizationPipeline, ".optimizers")
    IN  \/ /\ At(i, "createComponent", 60)
           /\ Assign(i, "optimizedArchitecture", Local(i, "composedArchitecture"), 61)
        \/ /\ At(i, "createComponent", 61)
           /\ idx[i] < env[i].n1
           /\ LoopCall(i, "optimizeComponentPerformance", "optimizedArchitecture",
                       T("optimize", <<Elem(optimizers, idx[i]), Local(i, "optimizedArchitecture"), context>>), 61)
        \/ /\ At(i, "createComponent", 61)
           /\ idx[i] >= env[i].n1
           /\ LoopExit(i, 72)
        \/ Call(i, "createComponent", 66, "optimizeComponentPerformance", "optimizedImplementation",
                T("applyPerformanceTuning",
                  <<Local(i, "optimizedArchitecture"), Local(i, "performanceMetrics")>>), 21)

measureComponentPerformance(i) ==
    LET architecture == Local(i, "optimizedArchitecture")
        context == Arg(i, "implementationContext")
        st == "optimizeComponentPerformance"
    IN  \/ Call(i, "createComponent", 72, st, "rendering",
                T("measureRenderingPerformance", <<architecture, context>>), 73)
        \/ Call(i, "createComponent", 73, st, "memory", T("analyzeMemoryUsage", <<architecture>>), 74)
        \/ Call(i, "createComponent", 74, st, "bundle", T("calculateBundleImpact", <<architecture>>), 75)
        \/ Call(i, "createComponent", 75, st, "runtime",
                T("assessRuntimeCharacteristics", <<architecture>>), 71)
        \/ Call(i, "createComponent", 71, st, "performanceMetrics",
                T("profile", <<architecture,
                               Obj(<<"rendering", "memory", "bundle", "runtime">>,
                                   <<Local(i, "rendering"), Local(i, "memory"),
                                     Local(i, "bundle"), Local(i, "runtime")>>)>>), 66)

\* As createComponent, analysing the architecture as it was before optimization.
createComponentAnalyzesComposed(i) ==
    \/ Call(i, "createComponent", 16, "resolveComponentDependencies", "dependencyGraph",
            T("resolveComponentDependencies", <<Local(i, "composedArchitecture")>>), 60)
    \/ Call(i, "createComponent", 21, "generateComponentContract", "contract",
            T("generateComponentContract", <<Local(i, "validatedSpec")>>), 23)
    \/ Call(i, "createComponent", 23, "analyzePerformanceCharacteristics", "performanceCharacteristics",
            T("analyzePerformanceCharacteristics", <<Local(i, "composedArchitecture")>>), 19)
    \/ /\ At(i, "createComponent", 19)
       /\ Resolve(i, Obj(<<"component", "contract", "dependencies", "performanceCharacteristics">>,
                         <<Local(i, "optimizedImplementation"), Local(i, "contract"),
                           Local(i, "dependencyGraph"), Local(i, "performanceCharacteristics")>>))

createComponent(i) ==
    \/ Call(i, "createComponent", 16, "resolveComponentDependencies", "dependencyGraph",
            T("resolveComponentDependencies", <<Local(i, "composedArchitecture")>>), 60)
    \/ Call(i, "createComponent", 21, "generateComponentContract", "contract",
            T("generateComponentContract", <<Local(i, "validatedSpec")>>), 23)
    \/ Call(i, "createComponent", 23, "analyzePerformanceCharacteristics", "performanceCharacteristics",
            T("analyzePerformanceCharacteristics", <<Local(i, "optimizedImplementation")>>), 19)
    \/ /\ At(i, "createComponent", 19)
       /\ Resolve(i, Obj(<<"component", "contract", "dependencies", "performanceCharacteristics">>,
                         <<Local(i, "optimizedImplementation"), Local(i, "contract"),
                           Local(i, "dependencyGraph"), Local(i, "performanceCharacteristics")>>))



(***************************************************************************)
(* ComponentArchitecture.js: ResponsiveLayoutEngine                        *)
(***************************************************************************)
analyzeViewportContext(i) ==
    LET context == Arg(i, "context")
    IN  Call(i, "computeResponsiveLayout", 100, "analyzeViewportContext", "viewportAnalysis",
             T("analyze", <<context,
                            ViewportOptions(context)>>), 110)

determineBreakpointStrategy(i) ==
    LET layoutSpec == Arg(i, "layoutSpec")
    IN  Call(i, "computeResponsiveLayout", 110, "determineBreakpointStrategy", "breakpointStrategy",
             T("designStrategy", <<F(layoutSpec, ".breakpoints"),
                                   BreakpointOptions(layoutSpec, Local(i, "viewportAnalysis"))>>), 88)

solveLayoutConstraints(i) ==
    LET constraints == Local(i, "layoutConstraints")
        viewport == Local(i, "viewportAnalysis")
        layoutSolver == T("createSolver", <<F(constraints, ".type")>>)
    IN  \/ Call(i, "computeResponsiveLayout", 120, "solveLayoutConstraints", "solution",
                T("solve", <<layoutSolver, constraints,
                             SolveOptions(constraints, viewport)>>), 126)
        \/ Call(i, "computeResponsiveLayout", 126, "solveLayoutConstraints", "solvedLayout",
                T("validateLayoutSolution", <<Local(i, "solution"), constraints, viewport>>), 131)

optimizeLayoutPerformance(i) ==
    LET optimizationContext ==
            LayoutOptimizationContext(Local(i, "viewportAnalysis"), Local(i, "layoutConstraints"), Arg(i, "context"))
        st == "optimizeLayoutPerformance"
    IN  \/ Call(i, "computeResponsiveLayout", 131, st, "optimizationStrategies",
                T("determineOptimizationStrategies", <<Local(i, "solvedLayout"), optimizationContext>>), 133)
        \/ /\ At(i, "computeResponsiveLayout", 133)
           /\ Assign(i, "optimizedLayout", Local(i, "solvedLayout"), 134)
        \/ /\ At(i, "computeResponsiveLayout", 134)
           /\ idx[i] < env[i].n1
           /\ LoopCall(i, st, "optimizedLayout",
                       T("optimize", <<Elem(Local(i, "optimizationStrategies"), idx[i]),
                                       Local(i, "optimizedLayout"), optimizationContext>>), 134)
        \/ /\ At(i, "computeResponsiveLayout", 134)
           /\ idx[i] >= env[i].n1
           /\ LoopExit(i, 140)
        \/ Call(i, "computeResponsiveLayout", 140, st, "performanceMetrics",
                T("measureLayoutPerformance", <<Local(i, "optimizedLayout"), optimizationContext>>), 141)
        \/ Call(i, "computeResponsiveLayout", 141, st, "adaptiveBehaviors",
                T("defineAdaptiveBehaviors", <<Local(i, "optimizedLayout"), optimizationContext>>), 138)
        \/ /\ At(i, "computeResponsiveLayout", 138)
           /\ Resolve(i, Obj(<<"layout", "performanceMetrics", "adaptiveBehaviors">>,
                             <<Local(i, "optimizedLayout"), Local(i, "performanceMetrics"),
                               Local(i, "adaptiveBehaviors")>>))

computeResponsiveLayout(i) ==
    Call(i, "computeResponsiveLayout", 88, "deriveLayoutConstraints", "layoutConstraints",
         T("deriveLayoutConstraints", <<Arg(i, "layoutSpec"), Local(i, "breakpointStrategy")>>), 120)

(***************************************************************************)
(* ComponentArchitecture.js: DesignSystemGovernance                        *)
(***************************************************************************)
analyzeComponentUsage(i) ==
    LET component == Arg(i, "component")
        usageAnalyzer == T("createAnalyzer", <<F(component, ".type")>>)
    IN  Call(i, "enforceDesignGovernance", 172, "analyzeComponentUsage", "usageAnalytics",
             T("analyze", <<usageAnalyzer, component>>), 181)

validateDesignCompliance(i) ==
    LET rules == Arg(i, "governanceRules")
        complianceValidator == T("createValidator", <<F(rules, ".complianceFramework")>>)
    IN  Call(i, "enforceDesignGovernance", 181, "validateDesignCompliance", "complianceReport",
             T("validate", <<complianceValidator, Arg(i, "component"),
                             ComplianceOptions(rules)>>), 154)

makeGovernanceDecision(i) ==
    LET rules == Arg(i, "governanceRules")
        governanceData == Obj(<<"analytics", "compliance", "evolution">>,
                              <<Local(i, "usageAnalytics"), Local(i, "complianceReport"),
                                Local(i, "evolutionImpact")>>)
    IN  Call(i, "enforceDesignGovernance", 190, "makeGovernanceDecision", "governanceDecision",
             T("evaluate", <<governanceData,
                             DecisionOptions(rules)>>), 166)

\* As enforceDesignGovernance, recommending from the compliance report.
enforceDesignGovernanceFromReport(i) ==
    \/ Call(i, "enforceDesignGovernance", 154, "assessEvolutionImpact", "evolutionImpact",
            T("assessEvolutionImpact", <<Arg(i, "component"), F(Arg(i, "governanceRules"), ".evolution")>>), 190)
    \/ Call(i, "enforceDesignGovernance", 166, "generateGovernanceRecommendations", "recommendations",
            T("generateGovernanceRecommendations", <<Local(i, "complianceReport")>>), 162)
    \/ /\ At(i, "enforceDesignGovernance", 162)
       /\ Resolve(i, Obj(<<"decision", "analytics", "compliance", "recommendations">>,
                         <<Local(i, "governanceDecision"), Local(i, "usageAnalytics"),
                           Local(i, "complianceReport"), Local(i, "recommendations")>>))

enforceDesignGovernance(i) ==
    \/ Call(i, "enforceDesignGovernance", 154, "assessEvolutionImpact", "evolutionImpact",
            T("assessEvolutionImpact", <<Arg(i, "component"), F(Arg(i, "governanceRules"), ".evolution")>>), 190)
    \/ Call(i, "enforceDesignGovernance", 166, "generateGovernanceRecommendations", "recommendations",
            T("generateGovernanceRecommendations", <<Local(i, "governanceDecision")>>), 162)
    \/ /\ At(i, "enforceDesignGovernance", 162)
       /\ Resolve(i, Obj(<<"decision", "analytics", "compliance", "recommendations">>,
                         <<Local(i, "governanceDecision"), Local(i, "usageAnalytics"),
                           Local(i, "complianceReport"), Local(i, "recommendations")>>))

(***************************************************************************)
(* AccessibilityEngine.js: AutomatedAccessibilityEnforcer                  *)
(***************************************************************************)
performComprehensiveAudit(i) ==
    LET context == Arg(i, "context")
    IN  \/ Call(i, "enforceAccessibility", 30, "performComprehensiveAudit", "auditResults",
                T("performAudit", <<Arg(i, "component"),
                    AuditOptions(context)>>), 36)
        \/ Call(i, "enforceAccessibility", 36, "performComprehensiveAudit", "accessibilityAudit",
                T("consolidateAuditFindings",
                  <<Local(i, "auditResults"), F(context, ".severityThresholds")>>), 41)

generateRemediationPlan(i) ==
    LET context == Arg(i, "context")
    IN  \/ Call(i, "enforceAccessibility", 41, "generateRemediationPlan", "remediationStrategies",
                T("planRemediation", <<Local(i, "accessibilityAudit"),
                    RemediationOptions(context)>>), 47)
        \/ Call(i, "enforceAccessibility", 47, "generateRemediationPlan", "remediationPlan",
                T("optimizeRemediationWorkflow",
                  <<Local(i, "remediationStrategies"), F(context, ".constraints")>>), 52)

\* The method's own `let enhancedComponent` is the local "enhanced"; the
\* caller's `const enhancedComponent` is the local "enhancedComponent".
applyAccessibilityEnhancements(i) ==
    LET remediationPlan == Local(i, "remediationPlan")
        st == "applyAccessibilityEnhancements"
    IN  \/ /\ At(i, "enforceAccessibility", 52)
           /\ Assign(i, "enhanced", Arg(i, "component"), 54)
        \/ /\ At(i, "enforceAccessibility", 54)
           /\ idx[i] < env[i].n1
           /\ LoopCall(i, st, "enhanced",
                       T("applyEnhancement",
                         <<Local(i, "enhanced"), Elem(F(remediationPlan, ".remediations"), idx[i])>>), 54)
        \/ /\ At(i, "enforceAccessibility", 54)
           /\ idx[i] >= env[i].n1
           /\ LoopExit(i, 61)
        \/ Call(i, "enforceAccessibility", 61, st, "enhancedComponent",
                T("validateEnhancementIntegration", <<Local(i, "enhanced"), remediationPlan>>), 66)

\* As verifyAccessibilityCompliance, verifying the component as it was passed in.
verifyAccessibilityComplianceOfInput(i) ==
    Call(i, "enforceAccessibility", 66, "verifyAccessibilityCompliance", "verificationReport",
         T("verifyCompliance", <<Arg(i, "component"), VerificationOptions(Arg(i, "context"))>>), 24)

verifyAccessibilityCompliance(i) ==
    LET context == Arg(i, "context")
    IN  Call(i, "enforceAccessibility", 66, "verifyAccessibilityCompliance", "verificationReport",
             T("verifyCompliance", <<Local(i, "enhancedComponent"),
                 VerificationOptions(context)>>), 24)

enforceAccessibility(i) ==
    \/ Call(i, "enforceAccessibility", 24, "generateComplianceCertificate", "complianceCertificate",
            T("generateComplianceCertificate", <<Local(i, "verificationReport")>>), 19)
    \/ /\ At(i, "enforceAccessibility", 19)
       /\ Resolve(i, Obj(<<"component", "audit", "remediation", "verification", "complianceCertificate">>,
                         <<Local(i, "enhancedComponent"), Local(i, "accessibilityAudit"),
                           Local(i, "remediationPlan"), Local(i, "verificationReport"),
                           Local(i, "complianceCertificate")>>))

(***************************************************************************)
(* AccessibilityEngine.js: InclusiveDesignOrchestrator                     *)
(***************************************************************************)
analyzeInclusionRequirements(i) ==
    LET userDiversity == Arg(i, "userDiversity")
    IN  Call(i, "ensureInclusiveDesign", 100, "analyzeInclusionRequirements", "inclusionRequirements",
             T("analyzeRequirements", <<userDiversity,
                 RequirementOptions(userDiversity)>>), 109)

\* The loop variable userProfile as the push after the score sees it
\* (the iterator has advanced past it).
PushedProfileStale(i) == env[i].profiles[1]
PushedProfile(i) == env[i].profiles[idx[i]]

simulateUserExperiences(i) ==
    LET profiles == env[i].profiles
        simulationEngine == Atom("createSimulator()")
        st == "simulateUserExperiences"
    IN  \/ /\ At(i, "ensureInclusiveDesign", 109)
           /\ Assign(i, "simulationResults", Arr(<<>>), 111)
        \/ /\ At(i, "ensureInclusiveDesign", 111)
           /\ idx[i] < Len(profiles)
           /\ LET userProfile == profiles[idx[i] + 1]
              IN  LoopCall(i, st, "simulation",
                           T("simulateExperience", <<simulationEngine, Arg(i, "component"), userProfile,
                               SimulationOptions(userProfile)>>), 121)
        \/ /\ At(i, "ensureInclusiveDesign", 121)
           /\ Await(i, st, "accessibilityScore",
                    T("calculateAccessibilityScore", <<Local(i, "simulation")>>), 118)
           /\ UNCHANGED idx
        \/ /\ At(i, "ensureInclusiveDesign", 118)
           /\ locals' = Put(locals, i, "simulationResults",
                            Arr(Append(Local(i, "simulationResults").args,
                                       Obj(<<"userProfile", "simulation", "accessibilityScore">>,
                                           <<PushedProfile(i), Local(i, "simulation"),
                                             Local(i, "accessibilityScore")>>))))
           /\ pc' = [pc EXCEPT ![i] = 111]
           /\ UNCHANGED <<status, op, env, idx, pend, trace, result, error>>
        \/ /\ At(i, "ensureInclusiveDesign", 111)
           /\ idx[i] >= Len(profiles)
           /\ Assign(i, "simulatedExperiences", Local(i, "simulationResults"), 130)

designPersonalizationApproaches(i) ==
    LET requirements == Local(i, "inclusionRequirements")
    IN  Call(i, "ensureInclusiveDesign", 130, "designPersonalizationApproaches", "personalizationStrategies",
             T("designApproaches", <<Arg(i, "component"), requirements,
                 PersonalizationOptions(requirements)>>), 84)

ensureInclusiveDesign(i) ==
    \/ Call(i, "ensureInclusiveDesign", 84, "implementInclusivePatterns", "inclusiveDesign",
            T("implementInclusivePatterns",
              <<Arg(i, "component"), Local(i, "inclusionRequirements"),
                Local(i, "simulatedExperiences")>>), 94)
    \/ Call(i, "ensureInclusiveDesign", 94, "calculateInclusionMetrics", "inclusionMetrics",
            T("calculateInclusionMetrics", <<Local(i, "inclusiveDesign"), Arg(i, "userDiversity")>>), 90)
    \/ /\ At(i, "ensureInclusiveDesign", 90)
       /\ Resolve(i, Obj(<<"design", "simulations", "personalization", "inclusionMetrics">>,
                         <<Local(i, "inclusiveDesign"), Local(i, "simulatedExperiences"),
                           Local(i, "personalizationStrategies"), Local(i, "inclusionMetrics")>>))

(***************************************************************************)
(* DesignTokenOrchestrator.js: DynamicDesignTokenEngine                    *)
(***************************************************************************)
resolveBaseTokenHierarchy(i) ==
    LET themeSpecification == F(Arg(i, "context"), ".theme")
        st == "resolveBaseTokenHierarchy"
        resolutionContext == Obj(<<"theme", "mode", "density", "contrast">>,
                                 <<themeSpecification, Local(i, "mode"), Local(i, "density"),
                                   Local(i, "contrast")>>)
    IN  \/ Call(i, "resolveDesignTokens", 30, st, "mode",
                T("determineColorMode", <<themeSpecification>>), 31)
        \/ Call(i, "resolveDesignTokens", 31, st, "density",
                T("calculateDensityScale", <<themeSpecification>>), 32)
        \/ Call(i, "resolveDesignTokens", 32, st, "contrast",
                T("assessContrastRequirements", <<themeSpecification>>), 35)
        \/ Call(i, "resolveDesignTokens", 35, st, "resolvedTokens",
                T("resolveHierarchy", <<F(themeSpecification, ".tokens"), resolutionContext>>), 36)
        \/ Call(i, "resolveDesignTokens", 36, st, "baseTokens",
                T("validateTokenConsistency",
                  <<Local(i, "resolvedTokens"), F(themeSpecification, ".constraints")>>), 47)

\* A Map with the given keys, in insertion order.
MapT(keys, vals) == T("Map", [j \in 1..Len(keys) |-> T(keys[j], <<vals[j]>>)])
\* map.set(key, v) for a key the map has
MapSet(m, key, v) ==
    T("Map", [j \in 1..Len(m.args) |-> IF m.args[j].op = key THEN T(key, <<v>>) ELSE m.args[j]])
\* the value the abstract map m holds for category c
Entry(m, c) == T("get", <<m, Atom(c)>>)
\* the entries [key, value] of the Map object the helpers built as base
\* tokens, for the categories cats it has
EntriesOf(m, cats) == MapT(cats, [j \in 1..Len(cats) |-> Entry(m, cats[j])])
\* map.get(key) for a key the map has
MapGet(m, key) == Get(m, key)

\* The own properties of the contextualModifiers object literal.
OwnModifiers == {"typography", "spacing", "color", "elevation"}
\* What every object literal inherits from Object.prototype.
ObjectPrototype ==
    {"constructor", "toString", "toLocaleString", "valueOf", "hasOwnProperty",
     "isPrototypeOf", "propertyIsEnumerable", "__proto__"}
\* contextualModifiers[tokenCategory]
ModifierFor(tokenCategory) ==
    CASE tokenCategory = "typography" -> Atom("new TypographicContextModifier()")
      [] tokenCategory = "spacing" -> Atom("new SpatialContextModifier()")
      [] tokenCategory = "color" -> Atom("new ChromaticContextModifier()")
      [] tokenCategory = "elevation" -> Atom("new DepthContextModifier()")
      [] tokenCategory \in ObjectPrototype -> F(Atom("Object.prototype"), tokenCategory)
      [] OTHER -> Undefined
Truthy(v) == ~Falsy(v)

applyContextualModifications(i) ==
    LET baseTokens == Local(i, "baseTokens")
        context == Arg(i, "context")
        cats == env[i].cats
        st == "applyContextualModifications"
    IN  \/ /\ At(i, "resolveDesignTokens", 47)
           \* new Map(baseTokens) reads the entries of the base map; from here
           \* on the frame tracks them beside the reference baseTokens
           /\ locals' = Put(Put(locals, i, "baseTokens[[MapData]]", EntriesOf(baseTokens, cats)),
                            i, "modifiedTokens", EntriesOf(baseTokens, cats))
           /\ pc' = [pc EXCEPT ![i] = 49]
           /\ idx' = [idx EXCEPT ![i] = 0]
           /\ UNCHANGED <<status, op, env, pend, trace, result, error>>
        \/ /\ At(i, "resolveDesignTokens", 49)
           /\ idx[i] < Len(cats)
           /\ LET tokenCategory == cats[idx[i] + 1]
                  tokens == MapGet(Local(i, "baseTokens[[MapData]]"), tokenCategory)
                  modifier == ModifierFor(tokenCategory)
              IN  \/ /\ Truthy(modifier)
                     /\ tokenCategory \in OwnModifiers
                     /\ LoopCall(i, st, "contextualized",
                                 T("applyContext", <<modifier, tokens, context>>), 53)
                  \/ /\ Truthy(modifier)
                     /\ tokenCategory \notin OwnModifiers
                     /\ Throw(i, T("TypeError", <<Atom("modifier.applyContext is not a function")>>))
                     /\ UNCHANGED <<pend, trace>>
                  \/ /\ ~Truthy(modifier)
                     /\ idx' = [idx EXCEPT ![i] = @ + 1]
                     /\ UNCHANGED <<status, op, env, pc, locals, pend, trace, result, error>>
        \/ /\ At(i, "resolveDesignTokens", 53)
           /\ locals' = Put(locals, i, "modifiedTokens",
                            MapSet(Local(i, "modifiedTokens"), cats[idx[i]], Local(i, "contextualized")))
           /\ pc' = [pc EXCEPT ![i] = 49]
           /\ UNCHANGED <<status, op, env, idx, pend, trace, result, error>>
        \/ /\ At(i, "resolveDesignTokens", 49)
           /\ idx[i] >= Len(cats)
           /\ LoopExit(i, 57)
        \/ Call(i, "resolveDesignTokens", 57, st, "contextualTokens",
                T("reconcileContextualDependencies", <<Local(i, "modifiedTokens"), context>>), 62)

adaptForPlatformConstraints(i) ==
    LET constraints == Arg(i, "platformConstraints")
        platformAdapter == T("getAdapter", <<F(constraints, ".platform")>>)
        st == "adaptForPlatformConstraints"
    IN  \/ Call(i, "resolveDesignTokens", 62, st, "adaptationPipeline",
                T("createAdaptationPipeline", <<platformAdapter, constraints>>), 64)
        \/ /\ At(i, "resolveDesignTokens", 64)
           /\ Assign(i, "adaptedTokens", Local(i, "contextualTokens"), 65)
        \/ /\ At(i, "resolveDesignTokens", 65)
           /\ idx[i] < env[i].n1
           /\ LoopCall(i, st, "adaptedTokens",
                       T("process", <<Elem(F(Local(i, "adaptationPipeline"), ".stages"), idx[i]),
                                      Local(i, "adaptedTokens"), constraints>>), 65)
        \/ /\ At(i, "resolveDesignTokens", 65)
           /\ idx[i] >= env[i].n1
           /\ LoopExit(i, 69)
        \/ Call(i, "resolveDesignTokens", 69, st, "platformOptimized",
                T("validatePlatformCompliance", <<Local(i, "adaptedTokens"), constraints>>), 74)

\* As enhanceForAccessibility, each strategy given the tokens the loop started from.
enhanceForAccessibilityFromInput(i) ==
    LET accessibilityRequirements == F(Arg(i, "context"), ".accessibility")
        st == "enhanceForAccessibility"
    IN  \/ Call(i, "resolveDesignTokens", 74, st, "enhancementStrategies",
                T("determineEnhancementStrategies",
                  <<Local(i, "platformOptimized"), accessibilityRequirements>>), 79)
        \/ /\ At(i, "resolveDesignTokens", 79)
           /\ Assign(i, "enhancedTokens", Local(i, "platformOptimized"), 80)
        \/ /\ At(i, "resolveDesignTokens", 80)
           /\ idx[i] < env[i].n2
           /\ LoopCall(i, st, "enhancedTokens",
                       T("enhance", <<Elem(Local(i, "enhancementStrategies"), idx[i]),
                                      Local(i, "platformOptimized"), accessibilityRequirements>>), 80)
        \/ /\ At(i, "resolveDesignTokens", 80)
           /\ idx[i] >= env[i].n2
           /\ LoopExit(i, 84)
        \/ Call(i, "resolveDesignTokens", 84, st, "accessibilityEnhanced",
                T("verifyAccessibilityCompliance",
                  <<Local(i, "enhancedTokens"), accessibilityRequirements>>), 19)

enhanceForAccessibility(i) ==
    LET accessibilityRequirements == F(Arg(i, "context"), ".accessibility")
        st == "enhanceForAccessibility"
    IN  \/ Call(i, "resolveDesignTokens", 74, st, "enhancementStrategies",
                T("determineEnhancementStrategies",
                  <<Local(i, "platformOptimized"), accessibilityRequirements>>), 79)
        \/ /\ At(i, "resolveDesignTokens", 79)
           /\ Assign(i, "enhancedTokens", Local(i, "platformOptimized"), 80)
        \/ /\ At(i, "resolveDesignTokens", 80)
           /\ idx[i] < env[i].n2
           /\ LoopCall(i, st, "enhancedTokens",
                       T("enhance", <<Elem(Local(i, "enhancementStrategies"), idx[i]),
                                      Local(i, "enhancedTokens"), accessibilityRequirements>>), 80)
        \/ /\ At(i, "resolveDesignTokens", 80)
           /\ idx[i] >= env[i].n2
           /\ LoopExit(i, 84)
        \/ Call(i, "resolveDesignTokens", 84, st, "accessibilityEnhanced",
                T("verifyAccessibilityCompliance",
                  <<Local(i, "enhancedTokens"), accessibilityRequirements>>), 19)

resolveDesignTokens(i) ==
    LET platformConstraints == Arg(i, "platformConstraints")
    IN  \/ Call(i, "resolveDesignTokens", 19, "finalizeTokenOutput", "output",
                T("finalizeTokenOutput", <<Local(i, "accessibilityEnhanced"),
                    FinalizeOptions(platformConstraints)>>), 23)
        \/ /\ At(i, "resolveDesignTokens", 23)
           /\ Resolve(i, Local(i, "output"))

(***************************************************************************)
(* DesignTokenOrchestrator.js: ThemeCompositionEngine                      *)
(***************************************************************************)
generateHarmoniousColorPalette(i) ==
    LET colorStrategy == F(Arg(i, "designIntent"), ".colorStrategy")
        st == "generateHarmoniousColorPalette"
    IN  \/ Call(i, "composeTheme", 111, st, "basePalette",
                T("generatePalette", <<colorStrategy,
                    PaletteOptions(colorStrategy)>>), 118)
        \/ Call(i, "composeTheme", 118, st, "colorPalette",
                T("refinePalette", <<Local(i, "basePalette"),
                    RefinementOptions(colorStrategy)>>), 127)

establishTypographicHierarchy(i) ==
    LET typographySpec == F(Arg(i, "designIntent"), ".typography")
        st == "establishTypographicHierarchy"
    IN  \/ Call(i, "composeTheme", 127, st, "baseScale",
                T("calculateScale", <<typographySpec,
                    ScaleOptions(typographySpec)>>), 134)
        \/ Call(i, "composeTheme", 134, st, "typographyScale",
                T("designHierarchy", <<Local(i, "baseScale"),
                    HierarchyOptions(typographySpec)>>), 96)

optimizeThemeContrast(i) ==
    LET accessibilityRequirements == F(Arg(i, "constraints"), ".accessibility")
        contrastOptimizer == T("createOptimizer", <<F(accessibilityRequirements, ".level")>>)
        theme == Obj(<<"color", "typography", "spacing", "motion">>,
                     <<Local(i, "color"), Local(i, "typography"), Local(i, "spacing"),
                       Local(i, "motion")>>)
        optimizationResult == Local(i, "optimizationResult")
        st == "optimizeThemeContrast"
    IN  \/ Call(i, "composeTheme", 143, st, "optimizationResult",
                T("optimizeContrast", <<contrastOptimizer, theme,
                    ContrastOptions(accessibilityRequirements)>>), 152)
        \/ Call(i, "composeTheme", 152, st, "complianceReport",
                T("generateContrastComplianceReport", <<F(optimizationResult, ".optimizedTheme")>>), 149)
        \/ /\ At(i, "composeTheme", 149)
           /\ Resolve(i, Obj(<<"theme", "contrastMetrics", "complianceReport">>,
                             <<F(optimizationResult, ".optimizedTheme"),
                               F(optimizationResult, ".metrics"), Local(i, "complianceReport")>>))

composeTheme(i) ==
    LET designIntent == Arg(i, "designIntent")
    IN  \/ Call(i, "composeTheme", 96, "calculateModularScale", "spacingSystem",
                T("calculateModularScale", <<F(designIntent, ".spacing")>>), 97)
        \/ Call(i, "composeTheme", 97, "deriveMotionPrinciples", "motionCurves",
                T("deriveMotionPrinciples", <<F(designIntent, ".motion")>>), 100)
        \/ Call(i, "composeTheme", 100, "semanticizeColorPalette", "color",
                T("semanticizeColorPalette",
                  <<Local(i, "colorPalette"), F(designIntent, ".semanticRoles")>>), 101)
        \/ Call(i, "composeTheme", 101, "establishTypeScale", "typography",
                T("establishTypeScale",
                  <<Local(i, "typographyScale"), F(designIntent, ".readability")>>), 102)
        \/ Call(i, "composeTheme", 102, "createSpatialSystem", "spacing",
                T("createSpatialSystem", <<Local(i, "spacingSystem"), F(designIntent, ".density")>>), 103)
        \/ Call(i, "composeTheme", 103, "refineMotionCurves", "motion",
                T("refineMotionCurves", <<Local(i, "motionCurves"), F(designIntent, ".interaction")>>), 143)

(***************************************************************************)
(* Specifications                                                          *)
(***************************************************************************)
Init ==
    /\ status = [i \in Invocations |-> "idle"]
    /\ op = [i \in Invocations |-> "none"]
    /\ env = [i \in Invocations |-> NoEnv]
    /\ pc = [i \in Invocations |-> 0]
    /\ idx = [i \in Invocations |-> 0]
    /\ locals = [i \in Invocations |-> <<>>]
    /\ pend = [i \in Invocations |-> {}]
    /\ trace = [i \in Invocations |-> <<>>]
    /\ result = [i \in Invocations |-> Undefined]
    /\ error = [i \in Invocations |-> Undefined]

Step(i) ==
    \/ HelperResolves(i)
    \/ HelperRejects(i)
    \/ validateComponentSpecification(i)
    \/ composeComponentArchitecture(i)
    \/ optimizeComponentPerformance(i)
    \/ measureComponentPerformance(i)
    \/ createComponent(i)
    \/ analyzeViewportContext(i)
    \/ determineBreakpointStrategy(i)
    \/ solveLayoutConstraints(i)
    \/ optimizeLayoutPerformance(i)
    \/ computeResponsiveLayout(i)
    \/ analyzeComponentUsage(i)
    \/ validateDesignCompliance(i)
    \/ makeGovernanceDecision(i)
    \/ enforceDesignGovernance(i)
    \/ performComprehensiveAudit(i)
    \/ generateRemediationPlan(i)
    \/ applyAccessibilityEnhancements(i)
    \/ verifyAccessibilityCompliance(i)
    \/ enforceAccessibility(i)
    \/ analyzeInclusionRequirements(i)
    \/ simulateUserExperiences(i)
    \/ designPersonalizationApproaches(i)
    \/ ensureInclusiveDesign(i)
    \/ resolveBaseTokenHierarchy(i)
    \/ applyContextualModifications(i)
    \/ adaptForPlatformConstraints(i)
    \/ enhanceForAccessibility(i)
    \/ resolveDesignTokens(i)
    \/ generateHarmoniousColorPalette(i)
    \/ establishTypographicHierarchy(i)
    \/ optimizeThemeContrast(i)
    \/ composeTheme(i)

\* One invocation of any public operation.
Next == Invoke(1, MaxList, NumericInputs) \/ Step(1)

Spec == Init /\ [][Next]_vars

FairSpec == Spec /\ WF_vars(Next)

\* Two invocations of the same instance (each class has one public operation,
\* so both run it), overlapping at their await points in every way.  The two
\* together iterate over at most MaxListPair elements.
InvokeSecond(m) ==
    /\ status[1] # "idle"
    /\ status[2] = "idle"
    /\ \E e \in EnvFor(op[1], m - Size(env[1]), NumericInputsPair) :
         /\ status' = [status EXCEPT ![2] = "running"]
         /\ op' = [op EXCEPT ![2] = op[1]]
         /\ env' = [env EXCEPT ![2] = e]
         /\ pc' = [pc EXCEPT ![2] = FirstLine(op[1])]
    /\ UNCHANGED <<idx, locals, pend, trace, result, error>>

NextPair ==
    Invoke(1, MaxListPair, NumericInputsPair) \/ InvokeSecond(MaxListPair) \/ Step(1) \/ Step(2)

SpecPair == Init /\ [][NextPair]_vars

(***************************************************************************)
(* What an invocation computes when it runs alone: each operation as a     *)
(* function of its arguments, written as the composition the source spells *)
(* out rather than step by step.                                           *)
(***************************************************************************)
SpecOf(i) == Arg(i, "componentSpec")
ValidationOf(i) ==
    T("validateSpecification",
      <<T("createValidator", <<F(SpecOf(i), ".componentType")>>), SpecOf(i),
        F(SpecOf(i), ".customValidators")>>)
ValidatedOf(i) ==
    T("normalizeComponentSpecification", <<SpecOf(i), F(ValidationOf(i), ".warnings")>>)
ComposedOf(i) ==
    LET v == ValidatedOf(i)
        composer == T("getComposer", <<T("determineCompositionStrategy", <<v>>)>>)
        architecture ==
            T("compose", <<composer, v,
                ComposeOptions(v)>>)
    IN  T("enforceArchitectureConstraints", <<architecture, F(v, ".constraints")>>)

RECURSIVE OptimizedBy(_, _)
\* the composed architecture after the first k optimizers
OptimizedBy(i, k) ==
    IF k = 0 THEN ComposedOf(i)
    ELSE LET context == Arg(i, "implementationContext")
         IN  T("optimize",
               <<Elem(F(T("createOptimizationPipeline", <<context>>), ".optimizers"), k - 1),
                 OptimizedBy(i, k - 1), context>>)

TunedOf(i) ==
    LET a == OptimizedBy(i, env[i].n1)
        metrics ==
            T("profile", <<a,
                Obj(<<"rendering", "memory", "bundle", "runtime">>,
                    <<T("measureRenderingPerformance", <<a, Arg(i, "implementationContext")>>),
                      T("analyzeMemoryUsage", <<a>>), T("calculateBundleImpact", <<a>>),
                      T("assessRuntimeCharacteristics", <<a>>)>>)>>)
    IN  T("applyPerformanceTuning", <<a, metrics>>)

CreateComponentAlone(i) ==
    Obj(<<"component", "contract", "dependencies", "performanceCharacteristics">>,
        <<TunedOf(i), T("generateComponentContract", <<ValidatedOf(i)>>),
          T("resolveComponentDependencies", <<ComposedOf(i)>>),
          T("analyzePerformanceCharacteristics", <<TunedOf(i)>>)>>)

ViewportOf(i) == T("analyze", <<Arg(i, "context"), ViewportOptions(Arg(i, "context"))>>)
ConstraintsOf(i) ==
    LET layoutSpec == Arg(i, "layoutSpec")
    IN  T("deriveLayoutConstraints",
          <<layoutSpec, T("designStrategy", <<F(layoutSpec, ".breakpoints"),
                                              BreakpointOptions(layoutSpec, ViewportOf(i))>>)>>)
SolvedOf(i) ==
    LET c == ConstraintsOf(i)
        solution == T("solve", <<T("createSolver", <<F(c, ".type")>>), c, SolveOptions(c, ViewportOf(i))>>)
    IN  T("validateLayoutSolution", <<solution, c, ViewportOf(i)>>)
LayoutContextOf(i) == LayoutOptimizationContext(ViewportOf(i), ConstraintsOf(i), Arg(i, "context"))

RECURSIVE LayoutBy(_, _)
\* the solved layout after the first k strategies
LayoutBy(i, k) ==
    IF k = 0 THEN SolvedOf(i)
    ELSE T("optimize",
           <<Elem(T("determineOptimizationStrategies", <<SolvedOf(i), LayoutContextOf(i)>>), k - 1),
             LayoutBy(i, k - 1), LayoutContextOf(i)>>)

ComputeResponsiveLayoutAlone(i) ==
    LET layout == LayoutBy(i, env[i].n1)
    IN  Obj(<<"layout", "performanceMetrics", "adaptiveBehaviors">>,
            <<layout, T("measureLayoutPerformance", <<layout, LayoutContextOf(i)>>),
              T("defineAdaptiveBehaviors", <<layout, LayoutContextOf(i)>>)>>)

UsageOf(i) ==
    T("analyze", <<T("createAnalyzer", <<F(Arg(i, "component"), ".type")>>), Arg(i, "component")>>)
ComplianceOf(i) ==
    LET rules == Arg(i, "governanceRules")
    IN  T("validate", <<T("createValidator", <<F(rules, ".complianceFramework")>>),
                        Arg(i, "component"), ComplianceOptions(rules)>>)
DecisionOf(i) ==
    LET rules == Arg(i, "governanceRules")
        evolution == T("assessEvolutionImpact", <<Arg(i, "component"), F(rules, ".evolution")>>)
    IN  T("evaluate", <<Obj(<<"analytics", "compliance", "evolution">>,
                            <<UsageOf(i), ComplianceOf(i), evolution>>),
                        DecisionOptions(rules)>>)
EnforceDesignGovernanceAlone(i) ==
    Obj(<<"decision", "analytics", "compliance", "recommendations">>,
        <<DecisionOf(i), UsageOf(i), ComplianceOf(i),
          T("generateGovernanceRecommendations", <<DecisionOf(i)>>)>>)

AuditOf(i) ==
    LET context == Arg(i, "context")
    IN  T("consolidateAuditFindings",
          <<T("performAudit", <<Arg(i, "component"), AuditOptions(context)>>),
            F(context, ".severityThresholds")>>)
PlanOf(i) ==
    LET context == Arg(i, "context")
    IN  T("optimizeRemediationWorkflow",
          <<T("planRemediation", <<AuditOf(i), RemediationOptions(context)>>),
            F(context, ".constraints")>>)

RECURSIVE EnhancedBy(_, _)
\* the component after the first k remediations of the plan
EnhancedBy(i, k) ==
    IF k = 0 THEN Arg(i, "component")
    ELSE T("applyEnhancement", <<EnhancedBy(i, k - 1), Elem(F(PlanOf(i), ".remediations"), k - 1)>>)

EnhancedOf(i) == T("validateEnhancementIntegration", <<EnhancedBy(i, env[i].n1), PlanOf(i)>>)
VerificationOf(i) == T("verifyCompliance", <<EnhancedOf(i), VerificationOptions(Arg(i, "context"))>>)
EnforceAccessibilityAlone(i) ==
    Obj(<<"component", "audit", "remediation", "verification", "complianceCertificate">>,
        <<EnhancedOf(i), AuditOf(i), PlanOf(i), VerificationOf(i),
          T("generateComplianceCertificate", <<VerificationOf(i)>>)>>)

RequirementsOf(i) ==
    T("analyzeRequirements", <<Arg(i, "userDiversity"), RequirementOptions(Arg(i, "userDiversity"))>>)
SimulationOf(i, userProfile) ==
    T("simulateExperience",
      <<Atom("createSimulator()"), Arg(i, "component"), userProfile, SimulationOptions(userProfile)>>)
SimulationsOf(i) ==
    Arr([j \in 1..Len(env[i].profiles) |->
            LET userProfile == env[i].profiles[j]
            IN  Obj(<<"userProfile", "simulation", "accessibilityScore">>,
                    <<userProfile, SimulationOf(i, userProfile),
                      T("calculateAccessibilityScore", <<SimulationOf(i, userProfile)>>)>>)])
EnsureInclusiveDesignAlone(i) ==
    LET component == Arg(i, "component")
        design == T("implementInclusivePatterns", <<component, RequirementsOf(i), SimulationsOf(i)>>)
    IN  Obj(<<"design", "simulations", "personalization", "inclusionMetrics">>,
            <<design, SimulationsOf(i),
              T("designApproaches", <<component, RequirementsOf(i),
                                      PersonalizationOptions(RequirementsOf(i))>>),
              T("calculateInclusionMetrics", <<design, Arg(i, "userDiversity")>>)>>)

BaseTokensOf(i) ==
    LET theme == F(Arg(i, "context"), ".theme")
        resolutionContext ==
            Obj(<<"theme", "mode", "density", "contrast">>,
                <<theme, T("determineColorMode", <<theme>>), T("calculateDensityScale", <<theme>>),
                  T("assessContrastRequirements", <<theme>>)>>)
    IN  T("validateTokenConsistency",
          <<T("resolveHierarchy", <<F(theme, ".tokens"), resolutionContext>>),
            F(theme, ".constraints")>>)
ContextualOf(i) ==
    LET cats == env[i].cats
        base == BaseTokensOf(i)
        modified ==
            MapT(cats, [j \in 1..Len(cats) |->
                          IF cats[j] \in OwnModifiers
                          THEN T("applyContext",
                                 <<ModifierFor(cats[j]), Entry(base, cats[j]), Arg(i, "context")>>)
                          ELSE Entry(base, cats[j])])
    IN  T("reconcileContextualDependencies", <<modified, Arg(i, "context")>>)

RECURSIVE AdaptedBy(_, _)
\* the contextual tokens after the first k adaptation stages
AdaptedBy(i, k) ==
    IF k = 0 THEN ContextualOf(i)
    ELSE LET constraints == Arg(i, "platformConstraints")
             pipeline == T("createAdaptationPipeline",
                           <<T("getAdapter", <<F(constraints, ".platform")>>), constraints>>)
         IN  T("process", <<Elem(F(pipeline, ".stages"), k - 1), AdaptedBy(i, k - 1), constraints>>)

PlatformOptimizedOf(i) ==
    T("validatePlatformCompliance", <<AdaptedBy(i, env[i].n1), Arg(i, "platformConstraints")>>)

RECURSIVE TokensEnhancedBy(_, _)
\* the platform-optimized tokens after the first k enhancement strategies
TokensEnhancedBy(i, k) ==
    IF k = 0 THEN PlatformOptimizedOf(i)
    ELSE LET requirements == F(Arg(i, "context"), ".accessibility")
             strategies == T("determineEnhancementStrategies", <<PlatformOptimizedOf(i), requirements>>)
         IN  T("enhance", <<Elem(strategies, k - 1), TokensEnhancedBy(i, k - 1), requirements>>)

ResolveDesignTokensAlone(i) ==
    T("finalizeTokenOutput",
      <<T("verifyAccessibilityCompliance",
          <<TokensEnhancedBy(i, env[i].n2), F(Arg(i, "context"), ".accessibility")>>),
        FinalizeOptions(Arg(i, "platformConstraints"))>>)

ComposeThemeAlone(i) ==
    LET designIntent == Arg(i, "designIntent")
        colorStrategy == F(designIntent, ".colorStrategy")
        typographySpec == F(designIntent, ".typography")
        requirements == F(Arg(i, "constraints"), ".accessibility")
        colorPalette ==
            T("refinePalette",
              <<T("generatePalette", <<colorStrategy, PaletteOptions(colorStrategy)>>),
                RefinementOptions(colorStrategy)>>)
        typographyScale ==
            T("designHierarchy",
              <<T("calculateScale", <<typographySpec, ScaleOptions(typographySpec)>>),
                HierarchyOptions(typographySpec)>>)
        baseTheme ==
            Obj(<<"color", "typography", "spacing", "motion">>,
                <<T("semanticizeColorPalette", <<colorPalette, F(designIntent, ".semanticRoles")>>),
                  T("establishTypeScale", <<typographyScale, F(designIntent, ".readability")>>),
                  T("createSpatialSystem",
                    <<T("calculateModularScale", <<F(designIntent, ".spacing")>>),
                      F(designIntent, ".density")>>),
                  T("refineMotionCurves",
                    <<T("deriveMotionPrinciples", <<F(designIntent, ".motion")>>),
                      F(designIntent, ".interaction")>>)>>)
        optimizationResult ==
            T("optimizeContrast", <<T("createOptimizer", <<F(requirements, ".level")>>), baseTheme,
                                    ContrastOptions(requirements)>>)
    IN  Obj(<<"theme", "contrastMetrics", "complianceReport">>,
            <<F(optimizationResult, ".optimizedTheme"), F(optimizationResult, ".metrics"),
              T("generateContrastComplianceReport", <<F(optimizationResult, ".optimizedTheme")>>)>>)

Alone(i) ==
    CASE op[i] = "createComponent" -> CreateComponentAlone(i)
      [] op[i] = "computeResponsiveLayout" -> ComputeResponsiveLayoutAlone(i)
      [] op[i] = "enforceDesignGovernance" -> EnforceDesignGovernanceAlone(i)
      [] op[i] = "enforceAccessibility" -> EnforceAccessibilityAlone(i)
      [] op[i] = "ensureInclusiveDesign" -> EnsureInclusiveDesignAlone(i)
      [] op[i] = "resolveDesignTokens" -> ResolveDesignTokensAlone(i)
      [] op[i] = "composeTheme" -> ComposeThemeAlone(i)
      [] OTHER -> Undefined

Resolved(i, name) == \E k \in 1..Len(trace[i]) : trace[i][k].ev = "resolve" /\ trace[i][k].op = name

\* C1: a createComponent whose specification the validator finds invalid
\* rejects with a ComponentSpecificationError built from the validator's
\* errors; it calls nothing but the validator and returns no result.
C1_InvalidSpecificationRejects ==
    \A i \in Invocations :
        (op[i] = "createComponent" /\ ~env[i].valid) =>
            /\ status[i] # "resolved"
            /\ result[i] = Undefined
            /\ \A k \in 1..Len(trace[i]) : trace[i][k].op = "validateSpecification"
            /\ \A p \in pend[i] : p.term.op = "validateSpecification"
            /\ (status[i] = "rejected" /\ Resolved(i, "validateSpecification")) =>
                   error[i] = T("ComponentSpecificationError", <<F(ValidationOf(i), ".errors")>>)
            /\ (status[i] = "running" /\ Resolved(i, "validateSpecification")) => pc[i] = 35

C1_Witness ==
    /\ op[1] = "createComponent" /\ ~env[1].valid
    /\ status[1] = "rejected"
    /\ error[1].op = "ComponentSpecificationError"

\* C6: the result of createComponent has exactly the fields component,
\* contract, dependencies, performanceCharacteristics: the tuned output of
\* the optimizers over the composed architecture, the contract of the
\* normalized specification, the dependency graph of the composed
\* (unoptimized) architecture, and the analysis of the returned component.
C6_CreateComponentResult ==
    \A i \in Invocations :
        (op[i] = "createComponent" /\ status[i] = "resolved") =>
            /\ Len(result[i].args) = 4
            /\ Keys(result[i]) = {"component", "contract", "dependencies", "performanceCharacteristics"}
            /\ Get(result[i], "component") = TunedOf(i)
            /\ Get(result[i], "contract") = T("generateComponentContract", <<ValidatedOf(i)>>)
            /\ Get(result[i], "dependencies") = T("resolveComponentDependencies", <<ComposedOf(i)>>)
            /\ Get(result[i], "performanceCharacteristics") =
                   T("analyzePerformanceCharacteristics", <<Get(result[i], "component")>>)

C6_Witness ==
    /\ op[1] = "createComponent" /\ status[1] = "resolved"
    /\ env[1].n1 = 2
    /\ Get(result[1], "component") # ComposedOf(1)

\* The stages of each public operation, in the order the source writes them.
StageOrder(o) ==
    CASE o = "createComponent" ->
           <<"validateComponentSpecification", "composeComponentArchitecture",
             "resolveComponentDependencies", "optimizeComponentPerformance",
             "generateComponentContract", "analyzePerformanceCharacteristics">>
      [] o = "computeResponsiveLayout" ->
           <<"analyzeViewportContext", "determineBreakpointStrategy", "deriveLayoutConstraints",
             "solveLayoutConstraints", "optimizeLayoutPerformance">>
      [] o = "enforceDesignGovernance" ->
           <<"analyzeComponentUsage", "validateDesignCompliance", "assessEvolutionImpact",
             "makeGovernanceDecision", "generateGovernanceRecommendations">>
      [] o = "enforceAccessibility" ->
           <<"performComprehensiveAudit", "generateRemediationPlan",
             "applyAccessibilityEnhancements", "verifyAccessibilityCompliance",
             "generateComplianceCertificate">>
      [] o = "ensureInclusiveDesign" ->
           <<"analyzeInclusionRequirements", "simulateUserExperiences",
             "designPersonalizationApproaches", "implementInclusivePatterns",
             "calculateInclusionMetrics">>
      [] o = "resolveDesignTokens" ->
           <<"resolveBaseTokenHierarchy", "applyContextualModifications",
             "adaptForPlatformConstraints", "enhanceForAccessibility", "finalizeTokenOutput">>
      [] o = "composeTheme" ->
           <<"generateHarmoniousColorPalette", "establishTypographicHierarchy",
             "calculateModularScale", "deriveMotionPrinciples", "semanticizeColorPalette",
             "establishTypeScale", "createSpatialSystem", "refineMotionCurves",
             "optimizeThemeContrast">>
      [] OTHER -> <<>>

StageIndex(o, stage) == CHOOSE k \in 1..Len(StageOrder(o)) : StageOrder(o)[k] = stage

\* C2: the only error a facade raises itself is the ComponentSpecificationError
\* of createComponent's validation; every other rejection is the rejection of
\* the helper call awaited last, passed on unchanged, after which nothing more
\* is called and no result is produced.
C2_OnlySpecificationErrorOrHelperRejection ==
    \A i \in Invocations :
        status[i] = "rejected" =>
            /\ result[i] = Undefined
            /\ pend[i] = {}
            /\ Len(trace[i]) > 0
            /\ LET last == trace[i][Len(trace[i])]
               IN  \/ /\ error[i].op = "ComponentSpecificationError"
                      /\ op[i] = "createComponent"
                      /\ last.ev = "resolve" /\ last.op = "validateSpecification"
                   \/ /\ error[i].op = "rejection"
                      /\ last.ev = "reject"
                      /\ error[i].args[1].op = last.op

\* C3: within one invocation at most one helper call is pending, a call is
\* issued only when the call before it has resolved, and the stages are
\* entered in the order the public operation writes them.
C3_SequentialAwaits ==
    \A i \in Invocations :
        LET tr == trace[i]
        IN  /\ Cardinality(pend[i]) <= 1
            /\ \A k \in 1..Len(tr) :
                   /\ (tr[k].ev = "call" /\ k > 1) => tr[k - 1].ev = "resolve"
                   /\ tr[k].ev # "call" =>
                          k > 1 /\ tr[k - 1].ev = "call" /\ tr[k - 1].op = tr[k].op
                   /\ tr[k].stage \in {StageOrder(op[i])[j] : j \in 1..Len(StageOrder(op[i]))}
            /\ \A j, k \in 1..Len(tr) :
                   j < k => StageIndex(op[i], tr[j].stage) <= StageIndex(op[i], tr[k].stage)
            /\ (pend[i] # {}) => (Len(tr) > 0 /\ tr[Len(tr)].ev = "call")

C3_Witness ==
    /\ op[1] = "createComponent" /\ status[1] = "running"
    /\ \E p \in pend[1] : p.term.op = "analyzePerformanceCharacteristics"
    /\ {trace[1][k].stage : k \in 1..Len(trace[1])} =
           {StageOrder("createComponent")[j] : j \in 1..6}

\* C5: every invocation, once started, ends resolved or rejected, given that
\* every helper call settles and the invocation keeps being scheduled.
C5_EveryInvocationSettles ==
    \A i \in {1} : (status[i] = "running") ~> (status[i] \in {"resolved", "rejected"})

C5_Witness ==
    /\ op[1] = "resolveDesignTokens" /\ status[1] = "resolved"
    /\ env[1].n1 = 1 /\ env[1].n2 = 1

\* C4: no invocation sees another: whatever the overlap of two invocations
\* of one instance, a resolved invocation returns what it returns alone on
\* its arguments, and its frame holds only values computed from them.
C4_InvocationsIsolated ==
    \A i \in Invocations :
        /\ status[i] = "resolved" => result[i] = Alone(i)
        /\ status[i] = "idle" => locals[i] = <<>>

C4_Witness ==
    /\ status[2] = "resolved" /\ result[2] = Alone(2)
    /\ status[1] = "running" /\ Len(trace[1]) > 2
    /\ op[1] = "enforceAccessibility"
    /\ env[2].n1 = 1

\* The pipeline loops: the helper each element is called through, and the
\* helper the stage after the loop calls first.
Loops ==
    {[o |-> "createComponent", name |-> "optimize", follow |-> "measureRenderingPerformance"],
     [o |-> "computeResponsiveLayout", name |-> "optimize", follow |-> "measureLayoutPerformance"],
     [o |-> "resolveDesignTokens", name |-> "process", follow |-> "validatePlatformCompliance"],
     [o |-> "resolveDesignTokens", name |-> "enhance", follow |-> "verifyAccessibilityCompliance"]}

\* the value the loop holds after its first k elements (k = 0: the loop's input)
FoldValue(i, l, k) ==
    CASE l.o = "createComponent" -> OptimizedBy(i, k)
      [] l.o = "computeResponsiveLayout" -> LayoutBy(i, k)
      [] l.name = "process" -> AdaptedBy(i, k)
      [] OTHER -> TokensEnhancedBy(i, k)

FoldLength(i, l) == IF l.name = "enhance" THEN env[i].n2 ELSE env[i].n1

\* the positions in the trace at which helper `name` was called
CallPositions(i, name) == {q \in 1..Len(trace[i]) : trace[i][q].ev = "call" /\ trace[i][q].op = name}

\* C7: every pipeline loop is a left fold in list order: element k is called
\* with the output of element k-1 (element 0 with the loop's input), the
\* elements are called once each in order, and the stage after the loop
\* receives the value after the last element, which for an empty list is the
\* loop's input.
C7_LoopsAreLeftFolds ==
    \A i \in Invocations : \A l \in Loops :
        op[i] = l.o =>
            /\ \A p \in pend[i] :
                   p.term.op = l.name =>
                       /\ p.term.args[1].op = "[]" /\ p.term.args[1].n = p.k
                       /\ p.term.args[2] = FoldValue(i, l, p.k)
            /\ \A q \in CallPositions(i, l.name) :
                   trace[i][q].k = Cardinality({r \in CallPositions(i, l.name) : r < q})
            /\ Cardinality(CallPositions(i, l.name)) <= FoldLength(i, l)
            /\ \A p \in pend[i] :
                   p.term.op = l.follow =>
                       /\ p.term.args[1] = FoldValue(i, l, FoldLength(i, l))
                       /\ Cardinality(CallPositions(i, l.name)) = FoldLength(i, l)

C7_Witness ==
    /\ op[1] = "resolveDesignTokens"
    /\ env[1].n1 = 0 /\ env[1].n2 = 2
    /\ \E p \in pend[1] : p.term.op = "verifyAccessibilityCompliance"
    /\ Cardinality(CallPositions(1, "enhance")) = 2
    /\ Resolved(1, "validatePlatformCompliance")

\* C8: ensureInclusiveDesign simulates the profiles one at a time in list
\* order, starting a profile only when the entry of the one before it, score
\* included, is in the list; the simulations returned have one entry per
\* profile, in order, each holding its own profile, simulation and score.
C8_ProfilesSimulatedInOrder ==
    \A i \in Invocations :
        op[i] = "ensureInclusiveDesign" =>
            LET profiles == env[i].profiles
                expected == SimulationsOf(i).args
            IN  /\ \A p \in pend[i] :
                       p.term.op = "simulateExperience" =>
                           /\ p.term = SimulationOf(i, profiles[p.k + 1])
                           /\ Local(i, "simulationResults") = Arr(SubSeq(expected, 1, p.k))
                /\ \A q \in CallPositions(i, "simulateExperience") :
                       /\ trace[i][q].k = Cardinality({r \in CallPositions(i, "simulateExperience") : r < q})
                       /\ trace[i][q].k > 0 =>
                              /\ trace[i][q - 1].ev = "resolve"
                              /\ trace[i][q - 1].op = "calculateAccessibilityScore"
                /\ status[i] = "resolved" =>
                       LET sims == Get(result[i], "simulations").args
                       IN  /\ Len(sims) = Len(profiles)
                           /\ \A j \in 1..Len(sims) :
                                  /\ Get(sims[j], "userProfile") = profiles[j]
                                  /\ Get(sims[j], "simulation") = SimulationOf(i, profiles[j])
                                  /\ Get(sims[j], "accessibilityScore") =
                                         T("calculateAccessibilityScore", <<Get(sims[j], "simulation")>>)

C8_Witness ==
    /\ op[1] = "ensureInclusiveDesign" /\ status[1] = "resolved"
    /\ Len(env[1].profiles) = 2 /\ env[1].profiles[1] # env[1].profiles[2]
    /\ Len(Get(result[1], "simulations").args) = 2

\* the k's of the resolved calls of helper `name`, in trace order
ResolvedPositions(i, name) == {q \in 1..Len(trace[i]) : trace[i][q].ev = "resolve" /\ trace[i][q].op = name}

\* C9: enforceAccessibility verifies compliance only after every remediation
\* of the plan was applied, in plan order, and the integration validated; it
\* verifies the enhanced component, not the one passed in; the component it
\* returns is the one verified and the certificate is that of the report.
C9_VerificationOfEnhancedComponent ==
    \A i \in Invocations :
        op[i] = "enforceAccessibility" =>
            /\ \A p \in pend[i] :
                   p.term.op = "verifyCompliance" =>
                       /\ p.term.args[1] = EnhancedOf(i)
                       /\ p.term.args[1] # Arg(i, "component")
                       /\ Resolved(i, "validateEnhancementIntegration")
                       /\ Cardinality(ResolvedPositions(i, "applyEnhancement")) = env[i].n1
                       /\ \A q \in ResolvedPositions(i, "applyEnhancement") :
                              trace[i][q].k =
                                  Cardinality({r \in ResolvedPositions(i, "applyEnhancement") : r < q})
            /\ status[i] = "resolved" =>
                   LET report == Get(result[i], "verification")
                   IN  /\ report.op = "verifyCompliance"
                       /\ report.args[1] = Get(result[i], "component")
                       /\ Get(result[i], "component") = EnhancedOf(i)
                       /\ Get(result[i], "complianceCertificate") =
                              T("generateComplianceCertificate", <<report>>)

C9_Witness ==
    /\ op[1] = "enforceAccessibility" /\ status[1] = "resolved"
    /\ env[1].n1 = 2
    /\ Get(result[1], "verification").args[1] = EnhancedOf(1)

\* C10: enforceDesignGovernance evaluates the decision only after usage
\* analysis, compliance validation and evolution-impact assessment have
\* completed; the analytics and compliance it returns are the values the
\* decision engine was given, and the recommendations are generated from
\* the decision it returns.
C10_GovernanceDecisionInputs ==
    \A i \in Invocations :
        op[i] = "enforceDesignGovernance" =>
            /\ \A p \in pend[i] :
                   p.term.op = "evaluate" =>
                       /\ Resolved(i, "analyze")
                       /\ Resolved(i, "validate")
                       /\ Resolved(i, "assessEvolutionImpact")
                       /\ Keys(p.term.args[1]) = {"analytics", "compliance", "evolution"}
            /\ status[i] = "resolved" =>
                   LET decision == Get(result[i], "decision")
                       given == decision.args[1]
                   IN  /\ decision.op = "evaluate"
                       /\ Get(result[i], "analytics") = Get(given, "analytics")
                       /\ Get(result[i], "compliance") = Get(given, "compliance")
                       /\ Get(result[i], "analytics").op = "analyze"
                       /\ Get(result[i], "compliance").op = "validate"
                       /\ Get(result[i], "recommendations") =
                              T("generateGovernanceRecommendations", <<decision>>)

C10_Witness ==
    /\ op[1] = "enforceDesignGovernance" /\ status[1] = "resolved"
    /\ Get(result[1], "decision") = DecisionOf(1)

(***************************************************************************)
(* Contextual modification of the token categories                         *)
(***************************************************************************)
\* the value #applyContextualModifications is to leave under category c
ContextualizedEntry(i, c) ==
    IF c \in OwnModifiers
    THEN T("applyContext", <<ModifierFor(c), Entry(BaseTokensOf(i), c), Arg(i, "context")>>)
    ELSE Entry(BaseTokensOf(i), c)

\* C11: for every base-token map, #applyContextualModifications never changes
\* the base map, hands reconciliation a map with exactly the base map's
\* categories, in which a category outside typography, spacing, color and
\* elevation keeps its base value and each of those four holds the output of
\* its own modifier, applied once to its base value; so the loop over the
\* categories ends only by reaching reconciliation or by a modifier's rejection.
C11_ContextualModificationFrame ==
    \A i \in Invocations :
        op[i] = "resolveDesignTokens" =>
            LET cats == env[i].cats
                tr == trace[i]
            IN  /\ "baseTokens[[MapData]]" \in DOMAIN locals[i] =>
                       Local(i, "baseTokens[[MapData]]") = EntriesOf(BaseTokensOf(i), cats)
                /\ \A p \in pend[i] :
                       p.term.op = "reconcileContextualDependencies" =>
                           LET m == p.term.args[1]
                           IN  /\ Len(m.args) = Len(cats)
                               /\ \A j \in 1..Len(cats) :
                                      /\ m.args[j].op = cats[j]
                                      /\ m.args[j].args[1] = ContextualizedEntry(i, cats[j])
                               /\ Cardinality({k \in 1..Len(tr) :
                                                  tr[k].ev = "call" /\ tr[k].op = "applyContext"})
                                      = Cardinality({j \in 1..Len(cats) : cats[j] \in OwnModifiers})
                /\ status[i] = "rejected" =>
                       (Len(tr) > 0 /\ tr[Len(tr)].ev = "reject" /\ error[i].op = "rejection")

(***************************************************************************)
(* Options with defaults                                                   *)
(***************************************************************************)
\* the options object of a helper call: its last argument
OptionsOf(call) == call.args[Len(call.args)]

\* C12: in enforceAccessibility the standards value passed to the verification
\* engine equals the standards value passed to the audit orchestrator, for
\* every context, the one without standards included.
C12_SameStandardsAuditedAndVerified ==
    \A i \in Invocations :
        \A p \in pend[i] :
            p.term.op = "verifyCompliance" =>
                Get(OptionsOf(p.term), "standards")
                    = Get(OptionsOf(Local(i, "auditResults")), "standards")

\* The numeric options with a default: the helper that receives the option,
\* the key it receives it under, the option the caller supplies, the default.
NumericOptions ==
    {[helper |-> "optimizeContrast", key |-> "tolerance", option |-> "tolerance", default |-> Num(10)],
     [helper |-> "verifyCompliance", key |-> "confidenceLevel", option |-> "confidenceThreshold", default |-> Num(95)],
     [helper |-> "generatePalette", key |-> "contrastTarget", option |-> "contrastTarget", default |-> Num(450)],
     [helper |-> "calculateScale", key |-> "scaleRatio", option |-> "scaleRatio", default |-> Num(125)],
     [helper |-> "calculateScale", key |-> "baselineGrid", option |-> "baseline", default |-> Num(800)]}

\* C13: for every numeric option with a default, the helper receives the
\* default exactly when the caller supplied no value, and receives any value
\* the caller did supply, 0 included, unchanged.
C13_DefaultOnlyWhenNotSupplied ==
    \A i \in Invocations :
        \A p \in pend[i] :
            \A o \in NumericOptions :
                p.term.op = o.helper =>
                    Get(OptionsOf(p.term), o.key)
                        = IF Supplied(i, o.option) = Undefined
                          THEN o.default
                          ELSE Supplied(i, o.option)
====
